---- MODULE Spec2Model ----
(***************************************************************************)
(* Model of demonstrations/tutorial_ml_classical_shadows.py: the coupling  *)
(* matrix generator, the Hamiltonian builder, the median-of-means shadow   *)
(* estimator, the dataset builder, the normalisation loop of the neural    *)
(* tangent kernel and the model selection of fit_predict_data.             *)
(*                                                                         *)
(* Arrays keep the source's 0-based indexing: an array of length n is a    *)
(* function with domain 0..n-1.  Python lists that are only appended to    *)
(* are sequences.  Real numbers are scaled integers (see Scale).           *)
(***************************************************************************)
EXTENDS Integers, Sequences, FiniteSets, TLC

VARIABLES
    shadow,      \* (meas_list, obs_lists) handed to estimate_shadow_observable
    call,        \* the current call of estimate_shadow_observable and its result
    np_random,   \* the global numpy generator: its seed and the number of draws taken
    first_call,  \* the first build_coupling_mats call: arguments, result, and the
                 \* number of global draws taken before it
    J_call,      \* the latest build_coupling_mats call, likewise
    ham,         \* the latest result of Hamiltonian(J_mat)
    term_in,     \* arguments and drawn coup_term_mat of the coupling loop under arbitrary draws
    ds,          \* the frame of build_dataset
    ntk,         \* the normalisation loop over kernel_NN: the matrix and the loop position
    arrays,      \* the script's global arrays X_data, y_exact, y_estim, kernel_dirichlet
                 \* and kernel_NN, as they are now
    built,       \* the same arrays as their producers returned them
    fit          \* the frame of fit_predict_data and the position of the loop calling it

vars == <<shadow, call, np_random, first_call, J_call, ham, term_in, ds, ntk, arrays, built, fit>>

-----------------------------------------------------------------------------
(* Bounds of the model *)

MaxT == 4        \* largest shadow_size
MaxQ == 2        \* largest num_qubits of a shadow
MaxCells == 4    \* largest shadow_size * num_qubits
MaxMats == 2     \* largest num_mats of a build_coupling_mats call
MaxRows == 2     \* largest num_rows
MaxCols == 2     \* largest num_cols
MaxRngDraws == 1 \* draws the global generator may hand out before the model stops drawing
MaxVal == 2      \* largest coupling value of an arbitrary draw (values 0..MaxVal)
MaxPoints == 2   \* largest num_points of a build_dataset call
MaxShots == 10   \* largest T (number of snapshots) of a build_dataset call
MaxEdges == 4    \* most edges 2*num_rows*num_cols - num_rows - num_cols of a lattice
MaxKernel == 3   \* largest len(kernel_NN) of the normalisation loop
MaxRoot == 2     \* largest square root of a diagonal entry k(x_i, x_i) of the kernel
MaxOff == 2      \* largest off-diagonal entry k(x_i, x_j) of the kernel (values 1..MaxOff)
MaxSamples == 8  \* largest len(X_data) handed to fit_predict_data
MaxCvTables == 2 \* number of score tables cross_val_score may answer from

-----------------------------------------------------------------------------
(* Generic helpers *)

Range(n) == 0..(n - 1)

RECURSIVE Gcd(_, _)
Gcd(a, b) == IF b = 0 THEN a ELSE Gcd(b, a % b)

RECURSIVE LcmUpTo(_)
LcmUpTo(n) == IF n <= 1 THEN 1 ELSE (LcmUpTo(n - 1) * n) \div Gcd(LcmUpTo(n - 1), n)

\* A real x is represented by the integer x * Scale.  Every mean is a sum of
\* +-1 products divided by a count <= shadow_size, and the median of an even
\* number of means halves a sum of two of them, so all values are integers.
Scale == 2 * LcmUpTo(MaxT)

-----------------------------------------------------------------------------
(* estimate_shadow_observable *)

\* map_name_to_int = {"PauliX": 0, "PauliY": 1, "PauliZ": 2}
MapNameToIntSwapped(name) ==
    CASE name = "PauliX" -> 2
      [] name = "PauliY" -> 1
      [] name = "PauliZ" -> 0

MapNameToInt(name) ==
    CASE name = "PauliX" -> 0
      [] name = "PauliY" -> 1
      [] name = "PauliZ" -> 2

\* An observable is a sequence of single-qubit Paulis [name, wire]: of length 1
\* for qml.PauliX/Y/Z, the factors observable.obs of a tensor product otherwise.
TargetObs(observable) == [n \in 1..Len(observable) |-> MapNameToInt(observable[n].name)]

TargetLocs(observable) == [n \in 1..Len(observable) |-> observable[n].wire]

ShadowSize(sh) == Cardinality(DOMAIN sh.meas_list)

\* range(start, stop, step) for step > 0, as the sequence of its values
RECURSIVE PyRange(_, _, _)
PyRange(start, stop, step) ==
    IF start >= stop THEN <<>> ELSE <<start>> \o PyRange(start + step, stop, step)

\* the row indices of the slice [i : i + size] of an array of length n
SliceRows(i, size, n) == { t \in Range(n) : i <= t /\ t < i + size }

\* line 398 comparing column n - 1 of the snapshot, the position of the factor,
\* instead of column target_locs[n] (faulty variant of RowMatches)
RowMatchesByPosition(sh, t, target_obs, target_locs) ==
    \A n \in 1..Len(target_locs) : sh.obs_lists[t][n - 1] = target_obs[n]

\* np.all(obs_lists_k[:, target_locs] == target_obs, axis=1) for row t
RowMatches(sh, t, target_obs, target_locs) ==
    \A n \in 1..Len(target_locs) : sh.obs_lists[t][target_locs[n]] = target_obs[n]

\* np.prod(meas_list_k[...][:, target_locs], axis=1) for row t
RECURSIVE RowProd(_, _, _, _)
RowProd(sh, t, target_locs, n) ==
    IF n = 0 THEN 1 ELSE sh.meas_list[t][target_locs[n]] * RowProd(sh, t, target_locs, n - 1)

RECURSIVE SumOver(_, _, _, _)
SumOver(sh, rows, target_locs, acc) ==
    IF rows = {} THEN acc
    ELSE LET t == CHOOSE x \in rows : TRUE
         IN SumOver(sh, rows \ {t}, target_locs,
                    acc + RowProd(sh, t, target_locs, Len(target_locs)))

\* lines 398-404 dividing by the size of the group instead of sum(indices)
\* (faulty variant of GroupMean)
GroupMeanOverGroup(sh, rows, target_obs, target_locs) ==
    LET indices == { t \in rows : RowMatches(sh, t, target_obs, target_locs) }
    IN IF Cardinality(indices) # 0
       THEN (Scale * SumOver(sh, indices, target_locs, 0)) \div Cardinality(rows)
       ELSE 0

\* the value one group appends to means (lines 398-404)
GroupMean(sh, rows, target_obs, target_locs) ==
    LET indices == { t \in rows : RowMatches(sh, t, target_obs, target_locs) }
    IN IF Cardinality(indices) # 0
       THEN (Scale * SumOver(sh, indices, target_locs, 0)) \div Cardinality(indices)
       ELSE 0

\* the loop of lines 393-404 over the group starts, skipping groups without a
\* matching snapshot (faulty variant of Means)
RECURSIVE MeansSkipEmpty(_, _, _, _, _)
MeansSkipEmpty(sh, starts, size, target_obs, target_locs) ==
    IF starts = <<>> THEN <<>>
    ELSE LET rows == SliceRows(Head(starts), size, ShadowSize(sh))
             rest == MeansSkipEmpty(sh, Tail(starts), size, target_obs, target_locs)
         IN IF \E t \in rows : RowMatches(sh, t, target_obs, target_locs)
            THEN <<GroupMean(sh, rows, target_obs, target_locs)>> \o rest
            ELSE rest

\* the loop of lines 393-404: one mean per start i of range(0, T, T // k)
RECURSIVE Means(_, _, _, _, _)
Means(sh, starts, size, target_obs, target_locs) ==
    IF starts = <<>> THEN <<>>
    ELSE <<GroupMean(sh, SliceRows(Head(starts), size, ShadowSize(sh)),
                     target_obs, target_locs)>>
         \o Means(sh, Tail(starts), size, target_obs, target_locs)

\* insertion into a sorted sequence
RECURSIVE Insert(_, _)
Insert(x, s) ==
    IF s = <<>> THEN <<x>>
    ELSE IF x <= Head(s) THEN <<x>> \o s ELSE <<Head(s)>> \o Insert(x, Tail(s))

RECURSIVE Sorted(_)
Sorted(s) == IF s = <<>> THEN <<>> ELSE Insert(Head(s), Sorted(Tail(s)))

\* the floating-point value nan: np.median of an empty list, and every value
\* computed from the zero vector divided by its norm
NaN == "nan"

\* np.median(means)
Median(means) ==
    LET s == Sorted(means)
        n == Len(s)
    IN IF n = 0 THEN NaN
       ELSE IF n % 2 = 1 THEN s[(n + 1) \div 2]
       ELSE (s[n \div 2] + s[n \div 2 + 1]) \div 2

\* estimate_shadow_observable with the step of range() kept at 1 or more
\* (faulty variant of EstimateShadowObservable)
EstimateShadowObservableClamped(sh, observable, k) ==
    LET T == ShadowSize(sh)
        size == IF T \div k = 0 THEN 1 ELSE T \div k
        starts == PyRange(0, T, size)
        means == Means(sh, starts, size, TargetObs(observable), TargetLocs(observable))
    IN [status |-> "ok", starts |-> starts, means |-> means, result |-> Median(means)]

\* estimate_shadow_observable(shadow, observable, k): range() raises ValueError
\* when its step shadow_size // k is 0
EstimateShadowObservable(sh, observable, k) ==
    LET T == ShadowSize(sh)
        size == T \div k
    IN IF size = 0
       THEN [status |-> "ValueError", starts |-> <<>>, means |-> <<>>, result |-> 0]
       ELSE LET starts == PyRange(0, T, size)
                means == Means(sh, starts, size, TargetObs(observable), TargetLocs(observable))
            IN [status |-> "ok", starts |-> starts, means |-> means,
                result |-> Median(means)]

-----------------------------------------------------------------------------
(* Inputs of the estimator *)

PauliNames == {"PauliX", "PauliY", "PauliZ"}

\* shapes (shadow_size, num_qubits) within the bounds
Shapes == { s \in (1..MaxT) \X (1..MaxQ) : s[1] * s[2] <= MaxCells }

\* gen_class_shadow returns outcomes in {1, -1} and bases in {0, 1, 2}
ShadowsOfShape(T, nq) ==
    [meas_list : [Range(T) -> [Range(nq) -> {1, -1}]],
     obs_lists : [Range(T) -> [Range(nq) -> 0..2]]]

NumQubits(sh) == Cardinality(DOMAIN sh.meas_list[0])

\* single Paulis and tensor products of two Paulis on distinct wires
Observables(nq) ==
    { <<[name |-> a, wire |-> w]>> : a \in PauliNames, w \in Range(nq) }
    \cup { <<[name |-> p[1], wire |-> p[3]], [name |-> p[2], wire |-> p[4]]>> :
             p \in { q \in PauliNames \X PauliNames \X Range(nq) \X Range(nq) : q[3] # q[4] } }

NoCall == [pc |-> "idle", k |-> 0, observable |-> <<>>, status |-> "none",
           starts |-> <<>>, means |-> <<>>, result |-> 0]

-----------------------------------------------------------------------------
(* State of the other components while one component is exercised *)

NoMats == [args |-> <<>>, status |-> "none", mats |-> <<>>, rng_pos |-> 0]

NoHam == [J_mat |-> <<>>, coeffs |-> <<>>, ops |-> <<>>]

NoTerms == [args |-> <<>>, coup_term_mat |-> <<>>]

NoDataset ==
    [pc |-> "idle", args |-> <<>>, coupling_mats |-> <<>>, idx |-> 0, ham |-> NoHam,
     psi |-> [kind |-> "none", id |-> 0], eigs_invoked |-> FALSE, eigs_calls |-> 0,
     shadow |-> [psi |-> [kind |-> "none", id |-> 0], rng_pos |-> 0],
     k |-> 0, cpos |-> 0, expval_exact |-> <<>>, expval_estim |-> <<>>,
     X |-> <<>>, y_exact |-> <<>>, y_estim |-> <<>>]

NoShadow == [meas_list |-> <<>>, obs_lists |-> <<>>]

FreshRandom == [seed |-> 0, pos |-> 0]

NoKernel == [pc |-> "idle", kernel_fn |-> <<>>, kernel_NN |-> <<>>, pos |-> 0]

NoArrays == [X_data |-> <<>>, y_exact |-> <<>>, y_estim |-> <<>>,
             kernel_dirichlet |-> <<>>, kernel_NN |-> <<>>]

\* None, and the score np.inf of line 698 where the score is not a number
\* of the model
None == [kind |-> "None"]

InfScore == [kind |-> "inf"]

\* np.inf as a cross-validation score: above every score of the model
Inf == 2147483647

NoFit ==
    [pc |-> "idle", call_no |-> 0, cij |-> 0, kernel |-> "none", opt |-> "none", table |-> 0,
     X_train |-> <<>>, X_test |-> <<>>, y_train |-> <<>>, y_test |-> <<>>,
     y_test_clean |-> <<>>, m |-> 0, h |-> 0, evals |-> 0,
     best_model |-> None, best_pred |-> None, best_cv_score |-> Inf,
     best_test_score |-> InfScore,
     ret |-> [model |-> None, pred |-> None, y_test_clean |-> <<>>,
              cv_score |-> Inf, test_score |-> InfScore]]

-----------------------------------------------------------------------------
(* SpecShadow: estimate_shadow_observable applied to every shadow within    *)
(* the bounds, every observable on its qubits and every k in 1..T+1         *)

InitShadow ==
    /\ \E s \in Shapes : shadow \in ShadowsOfShape(s[1], s[2])
    /\ call = NoCall
    /\ np_random = FreshRandom
    /\ first_call = NoMats
    /\ J_call = NoMats
    /\ ham = NoHam
    /\ term_in = NoTerms
    /\ ds = NoDataset
    /\ ntk = NoKernel
    /\ arrays = NoArrays
    /\ built = NoArrays
    /\ fit = NoFit

\* a call estimate_shadow_observable(shadow, observable, k=k) runs to its end
Estimate ==
    /\ call.pc = "idle"
    /\ \E k \in 1..(ShadowSize(shadow) + 1), observable \in Observables(NumQubits(shadow)) :
          LET r == EstimateShadowObservable(shadow, observable, k)
          IN call' = [pc |-> "done", k |-> k, observable |-> observable,
                      status |-> r.status, starts |-> r.starts, means |-> r.means,
                      result |-> r.result]
    /\ UNCHANGED <<shadow, np_random, first_call, J_call, ham, term_in, ds, ntk, arrays, built, fit>>

\* the caller takes the result (or the exception); the shadow is kept
EstimateReturn ==
    /\ call.pc = "done"
    /\ call' = NoCall
    /\ UNCHANGED <<shadow, np_random, first_call, J_call, ham, term_in, ds, ntk, arrays, built, fit>>

NextShadow == Estimate \/ EstimateReturn

SpecShadow == InitShadow /\ [][NextShadow]_vars

-----------------------------------------------------------------------------
(* Claims about estimate_shadow_observable, stated on the finished call     *)

\* the basis code gen_class_shadow records for a Pauli (unitary_ops order)
BasisCode(name) == IF name = "PauliX" THEN 0 ELSE IF name = "PauliY" THEN 1 ELSE 2

\* snapshot t was measured in the observable's basis on every targeted qubit
SnapshotMatches(t) ==
    \A n \in 1..Len(call.observable) :
        shadow.obs_lists[t][call.observable[n].wire] = BasisCode(call.observable[n].name)

\* the snapshots of the g-th group the loop visited (g = 1, 2, ...)
GroupOf(g) ==
    LET size == ShadowSize(shadow) \div call.k
    IN { t \in Range(ShadowSize(shadow)) : (g - 1) * size <= t /\ t < g * size }

CallDone == call.pc = "done"

KWithinShadow == 1 <= call.k /\ call.k <= ShadowSize(shadow)

\* C1: for 1 <= K <= T the T snapshots are cut into exactly K contiguous groups
\* of floor(T/K) snapshots, and the trailing T - K*floor(T/K) snapshots belong
\* to no group (so they cannot influence the median).
C1_ExactlyKGroupsRemainderDropped ==
    (CallDone /\ KWithinShadow) =>
        LET T == ShadowSize(shadow)
            size == T \div call.k
        IN /\ call.status = "ok"
           /\ Len(call.means) = call.k
           /\ Len(call.starts) = call.k
           /\ \A g \in 1..Len(call.starts) :
                 /\ call.starts[g] = (g - 1) * size
                 /\ call.starts[g] + size <= call.k * size

\* C2: a group without a snapshot matching the observable on every targeted
\* qubit contributes 0 to the group means; it is not left out of the median and
\* nothing is raised; if no group has a matching snapshot the estimate is 0.
C2_NoMatchGroupContributesZero ==
    (CallDone /\ KWithinShadow) =>
        LET T == ShadowSize(shadow)
            size == T \div call.k
            groups == (T + size - 1) \div size
        IN /\ call.status = "ok"
           /\ Len(call.means) = groups
           /\ \A g \in 1..groups :
                 (\A t \in GroupOf(g) : ~SnapshotMatches(t)) => call.means[g] = 0
           /\ (\A t \in Range(T) : ~SnapshotMatches(t)) => call.result = 0

\* C2 witness: a two-factor observable, one group whose only snapshot matches
\* on one targeted qubit but not the other (so it contributes 0), and another
\* group with a full match and a nonzero mean.
C2_Witness ==
    /\ CallDone /\ KWithinShadow /\ call.status = "ok"
    /\ Len(call.observable) = 2
    /\ \E g \in 1..Len(call.means) :
          /\ call.means[g] = 0
          /\ \A t \in GroupOf(g) : ~SnapshotMatches(t)
          /\ \E t \in GroupOf(g) :
                shadow.obs_lists[t][call.observable[1].wire] = BasisCode(call.observable[1].name)
    /\ \E g \in 1..Len(call.means) :
          /\ call.means[g] # 0
          /\ \E t \in GroupOf(g) : SnapshotMatches(t)

\* every snapshot records basis Z and outcome +1 on qubit 0
AllZPlusOnQubit0 ==
    \A t \in Range(ShadowSize(shadow)) :
        shadow.obs_lists[t][0] = 2 /\ shadow.meas_list[t][0] = 1

ObservableIsZ0 == call.observable = <<[name |-> "PauliZ", wire |-> 0]>>

\* C3 as stated: on a shadow whose snapshots all record basis Z and outcome +1
\* on qubit 0, the estimate of Z on qubit 0 is exactly 1.0 whatever the group
\* count K.
C3_OneForEveryK ==
    (CallDone /\ AllZPlusOnQubit0 /\ ObservableIsZ0) =>
        (call.status = "ok" /\ call.result = Scale)

\* C3 amended: on such a shadow the estimate of Z on qubit 0 is exactly 1.0 for
\* every group count K with 1 <= K <= T (for K > T the call raises).
C3_OneForEveryKWithinShadow ==
    (CallDone /\ AllZPlusOnQubit0 /\ ObservableIsZ0 /\ KWithinShadow) =>
        (call.status = "ok" /\ call.result = Scale)

\* C3 witness: such a call with T not divisible by K, returning 1.0
C3_Witness ==
    /\ CallDone /\ AllZPlusOnQubit0 /\ ObservableIsZ0 /\ KWithinShadow
    /\ ShadowSize(shadow) % call.k # 0
    /\ call.status = "ok" /\ call.result = Scale

\* the snapshots of group g measured in the observable's basis on every
\* targeted qubit
MatchingIn(g) == { t \in GroupOf(g) : SnapshotMatches(t) }

\* the product of the outcomes snapshot t records on the first n targeted qubits
RECURSIVE OutcomeProduct(_, _)
OutcomeProduct(t, n) ==
    IF n = 0 THEN 1
    ELSE shadow.meas_list[t][call.observable[n].wire] * OutcomeProduct(t, n - 1)

RECURSIVE SumOfProducts(_)
SumOfProducts(S) ==
    IF S = {} THEN 0
    ELSE LET t == CHOOSE x \in S : TRUE
         IN OutcomeProduct(t, Len(call.observable)) + SumOfProducts(S \ {t})

\* x is the r-th smallest of the values vals[1], ..., vals[n]
IsRthSmallest(x, r, vals) ==
    /\ \E p \in 1..Len(vals) : vals[p] = x
    /\ Cardinality({ p \in 1..Len(vals) : vals[p] < x }) <= r - 1
    /\ Cardinality({ p \in 1..Len(vals) : vals[p] <= x }) >= r

\* m is the median of vals: the middle value of an odd number of values, the
\* half sum of the two middle values of an even number
IsMedianOf(m, vals) ==
    LET n == Len(vals)
    IN IF n % 2 = 1 THEN IsRthSmallest(m, (n + 1) \div 2, vals)
       ELSE \E a, b \in { vals[p] : p \in 1..n } :
               /\ IsRthSmallest(a, n \div 2, vals)
               /\ IsRthSmallest(b, n \div 2 + 1, vals)
               /\ 2 * m = a + b

\* C17: the value of a group with at least one matching snapshot is the
\* arithmetic mean, over exactly the snapshots of the group whose basis equals
\* the observable's on every targeted qubit, of the product of the outcomes on
\* the targeted qubits; the returned estimate is the median of the group values.
C17_GroupMeanOverMatchesThenMedian ==
    (CallDone /\ KWithinShadow) =>
        /\ call.status = "ok"
        /\ \A g \in 1..Len(call.means) :
              MatchingIn(g) # {} =>
                 call.means[g] * Cardinality(MatchingIn(g)) = Scale * SumOfProducts(MatchingIn(g))
        /\ IsMedianOf(call.result, call.means)

\* C17 witness: a two-factor observable and a group in which some snapshots
\* match and some do not, whose mean is not 0, among an even number of groups
C17_Witness ==
    /\ CallDone /\ KWithinShadow /\ call.status = "ok"
    /\ \E g \in 1..Len(call.means) :
          /\ MatchingIn(g) # {}
          /\ MatchingIn(g) # GroupOf(g)
          /\ call.means[g] # 0
    /\ \E h \in 1..Len(call.means) : call.means[h] # call.result

\* the qubits of the shadow the observable does not target
OtherQubits ==
    Range(NumQubits(shadow)) \ { call.observable[n].wire : n \in 1..Len(call.observable) }

\* the shadows of the same size that agree with shadow on the outcomes and the
\* bases of every targeted qubit
ShadowVariants ==
    LET T == ShadowSize(shadow)
        cells == Range(T) \X OtherQubits
    IN { [meas_list |-> [t \in Range(T) |-> [q \in Range(NumQubits(shadow)) |->
                           IF q \in OtherQubits THEN m[<<t, q>>] ELSE shadow.meas_list[t][q]]],
          obs_lists |-> [t \in Range(T) |-> [q \in Range(NumQubits(shadow)) |->
                           IF q \in OtherQubits THEN o[<<t, q>>] ELSE shadow.obs_lists[t][q]]]] :
           m \in [cells -> {1, -1}], o \in [cells -> 0..2] }

\* the factors of the observable in the opposite order
FactorsReversed ==
    [n \in 1..Len(call.observable) |-> call.observable[Len(call.observable) + 1 - n]]

\* C18: two shadows of the same size that agree on the outcomes and bases of
\* every targeted qubit give the same outcome (estimate or exception) for the
\* same observable and k, however they differ on the other qubits; and the
\* outcome is unchanged when the factors of the observable are given in the
\* opposite order.
C18_DependsOnlyOnTargetedQubits ==
    CallDone =>
        /\ \A sh2 \in ShadowVariants :
              LET r == EstimateShadowObservable(sh2, call.observable, call.k)
              IN r.status = call.status /\ r.result = call.result
        /\ LET r == EstimateShadowObservable(shadow, FactorsReversed, call.k)
           IN r.status = call.status /\ r.result = call.result

\* C18 witness: a one-qubit observable on qubit 1 of a two-qubit shadow whose
\* qubit 0 records another basis in every snapshot, with a nonzero estimate
C18_Witness ==
    /\ CallDone /\ call.status = "ok"
    /\ NumQubits(shadow) = 2
    /\ Len(call.observable) = 1 /\ call.observable[1].wire = 1
    /\ \A t \in Range(ShadowSize(shadow)) :
          shadow.obs_lists[t][0] # BasisCode(call.observable[1].name)
    /\ call.result # 0

\* C19: a call with k larger than the shadow size T raises and returns no
\* estimate; a call with 1 <= k <= T returns a value in [-1, 1].
C19_RaisesBeyondShadowSizeElseBounded ==
    CallDone =>
        /\ call.k > ShadowSize(shadow) => call.status = "ValueError"
        /\ KWithinShadow =>
              /\ call.status = "ok"
              /\ -Scale <= call.result /\ call.result <= Scale

\* C19 witness: a call with k = T + 1 on a shadow of more than one snapshot,
\* which raised
C19_Witness ==
    /\ CallDone
    /\ ShadowSize(shadow) >= 2
    /\ call.k = ShadowSize(shadow) + 1
    /\ call.status = "ValueError"

-----------------------------------------------------------------------------
(* build_coupling_mats *)

\* anp.random.RandomState(seed) is a deterministic generator.  It is modelled
\* as a Lehmer generator: the state after n draws is seed * RngMultiplier^n
\* modulo the prime RngModulus, never 0 and without repetition within
\* RngModulus - 1 draws.  The n-th uniform(0, 2) draw is the real number
\* 2 * state / RngModulus, represented by the integer state (nonzero, as the
\* 53-bit doubles of the seeded generator are in the draws a run can make).
Seed == 24

RngModulus == 101

RngMultiplier == 7

RECURSIVE RngState(_, _)
RngState(seed, n) ==
    IF n = 0 THEN seed % RngModulus ELSE (RngMultiplier * RngState(seed, n - 1)) % RngModulus

\* the number of lattice edges, the size of one row of coup_term_mat
NumTerms(num_rows, num_cols) == 2 * num_rows * num_cols - num_rows - num_cols

\* coup_term_mat drawn from the global generator np.random instead of a
\* RandomState(24) of its own (faulty variant of CoupTermMat)
CoupTermMatGlobal(num_mats, size) ==
    [itr \in Range(num_mats) |->
        [e \in Range(size) |-> RngState(np_random.seed, np_random.pos + itr * size + e + 1)]]

\* coup_term_mat = RandomState(24).uniform(0, 2, size=(num_mats, size)),
\* filled in row-major order from a generator that is created by the call
CoupTermMat(num_mats, size) ==
    [itr \in Range(num_mats) |-> [e \in Range(size) |-> RngState(Seed, itr * size + e + 1)]]

\* the edge test of line 80 with the row-boundary guard on i instead of j
\* (faulty variant of IsEdge)
IsEdgeGuardOnI(i, j, num_cols) == (i % num_cols # 0 /\ j - i = 1) \/ (j - i = num_cols)

\* line 80: (j % num_cols and j - i == 1) or (j - i == num_cols)
IsEdge(i, j, num_cols) == (j % num_cols # 0 /\ j - i = 1) \/ (j - i = num_cols)

\* lines 81-82 without the mirrored assignment (faulty variant of AssignTerm)
AssignTermUpperOnly(M, i, j, v) == [M EXCEPT ![i][j] = v]

\* lines 81-82: M[i][j] = next(coup_terms); M[j][i] = M[i][j]
AssignTerm(M, i, j, v) == [[M EXCEPT ![i][j] = v] EXCEPT ![j][i] = v]

\* lines 78-82 for one matrix: n runs over it.product(range(num_spins),
\* range(num_spins)) in row-major order, pos is the position of the iterator
\* coup_terms; next() on an exhausted iterator raises StopIteration
RECURSIVE FillMat(_, _, _, _, _, _)
FillMat(M, terms, pos, n, num_spins, num_cols) ==
    LET i == n \div num_spins
        j == n % num_spins
    IN IF n = num_spins * num_spins THEN [status |-> "ok", mat |-> M]
       ELSE IF M[i][j] = 0 /\ IsEdge(i, j, num_cols)
            THEN IF pos \notin DOMAIN terms
                 THEN [status |-> "StopIteration", mat |-> M]
                 ELSE FillMat(AssignTerm(M, i, j, terms[pos]), terms, pos + 1, n + 1,
                              num_spins, num_cols)
            ELSE FillMat(M, terms, pos, n + 1, num_spins, num_cols)

\* np.zeros((num_spins, num_spins))
ZeroMat(num_spins) == [i \in Range(num_spins) |-> [j \in Range(num_spins) |-> 0]]

\* lines 70-83 for a given coup_term_mat
CouplingLoop(num_mats, num_rows, num_cols, coup_term_mat) ==
    LET num_spins == num_rows * num_cols
        filled == [itr \in Range(num_mats) |->
                      FillMat(ZeroMat(num_spins), coup_term_mat[itr], 0, 0, num_spins, num_cols)]
    IN [status |-> IF \A itr \in Range(num_mats) : filled[itr].status = "ok"
                   THEN "ok" ELSE "StopIteration",
        mats |-> [itr \in Range(num_mats) |-> filled[itr].mat]]

\* build_coupling_mats(num_mats, num_rows, num_cols)
BuildCouplingMats(num_mats, num_rows, num_cols) ==
    CouplingLoop(num_mats, num_rows, num_cols,
                 CoupTermMat(num_mats, NumTerms(num_rows, num_cols)))

NumSpins(J_mat) == Cardinality(DOMAIN J_mat)

-----------------------------------------------------------------------------
(* Hamiltonian *)

PauliOps == <<"PauliX", "PauliY", "PauliZ">>

\* the test `if coeff:` replaced by TRUE (faulty variant of CoeffIsTruthy)
CoeffAlwaysTruthy(coeff) == TRUE

\* line 136: if coeff
CoeffIsTruthy(coeff) == coeff # 0

\* lines 132-138: n runs over (i, j, op) in the order of the three nested
\* loops; iterations with j <= i are not part of range(i + 1, num_spins)
RECURSIVE HamLoop(_, _, _)
HamLoop(J_mat, n, acc) ==
    LET num_spins == NumSpins(J_mat)
        i == n \div (3 * num_spins)
        j == (n \div 3) % num_spins
        op == PauliOps[(n % 3) + 1]
    IN IF n = 3 * num_spins * num_spins THEN acc
       ELSE IF j > i /\ CoeffIsTruthy(J_mat[i][j])
            THEN HamLoop(J_mat, n + 1,
                         [coeffs |-> Append(acc.coeffs, J_mat[i][j]),
                          ops |-> Append(acc.ops, [name |-> op, wires |-> <<i, j>>])])
            ELSE HamLoop(J_mat, n + 1, acc)

\* Hamiltonian(J_mat): qml.Hamiltonian(coeffs, ops)
Hamiltonian(J_mat) == HamLoop(J_mat, 0, [coeffs |-> <<>>, ops |-> <<>>])

-----------------------------------------------------------------------------
(* Spec: the script's calls of build_coupling_mats, with draws from the     *)
(* global generator in between                                              *)

GlobalSeeds == {Seed, 57}

\* the lattices (num_rows, num_cols) within the bounds
LatticeShapes ==
    { a \in (1..MaxRows) \X (1..MaxCols) : NumTerms(a[1], a[2]) <= MaxEdges }

Init ==
    /\ shadow = NoShadow
    /\ call = NoCall
    /\ np_random \in [seed : GlobalSeeds, pos : {0}]
    /\ first_call = NoMats
    /\ J_call = NoMats
    /\ ham = NoHam
    /\ term_in = NoTerms
    /\ ds = NoDataset
    /\ ntk = NoKernel
    /\ arrays = NoArrays
    /\ built = NoArrays
    /\ fit = NoFit

\* a call build_coupling_mats(num_mats, num_rows, num_cols)
CallBuildCouplingMats ==
    /\ \E num_mats \in 1..MaxMats, a \in LatticeShapes :
          LET r == BuildCouplingMats(num_mats, a[1], a[2])
              c == [args |-> <<num_mats, a[1], a[2]>>,
                    status |-> r.status, mats |-> r.mats, rng_pos |-> np_random.pos]
          IN /\ J_call' = c
             /\ first_call' = IF first_call = NoMats THEN c ELSE first_call
    /\ UNCHANGED <<shadow, call, np_random, ham, term_in, ds, ntk, arrays, built, fit>>

\* a call Hamiltonian(J_mat) on one of the matrices built
CallHamiltonian ==
    /\ J_call # NoMats
    /\ \E itr \in DOMAIN J_call.mats :
          LET h == Hamiltonian(J_call.mats[itr])
          IN ham' = [J_mat |-> J_call.mats[itr], coeffs |-> h.coeffs, ops |-> h.ops]
    /\ UNCHANGED <<shadow, call, np_random, first_call, J_call, term_in, ds, ntk, arrays, built, fit>>

\* np.random.randint(0, 3, size=(num_shadows, num_qubits)) of gen_class_shadow
\* takes num_shadows * num_qubits draws from the global generator
GlobalRandint ==
    /\ \E size \in 1..MaxRngDraws :
          /\ np_random.pos + size <= MaxRngDraws
          /\ np_random' = [np_random EXCEPT !.pos = @ + size]
    /\ UNCHANGED <<shadow, call, first_call, J_call, ham, term_in, ds, ntk, arrays, built, fit>>

Next == CallBuildCouplingMats \/ GlobalRandint

Spec == Init /\ [][Next]_vars

-----------------------------------------------------------------------------
(* SpecDraws: the loops of build_coupling_mats and Hamiltonian applied to   *)
(* every coup_term_mat with entries in 0..MaxVal, whatever the generator    *)
(* would have drawn                                                         *)

InitDraws ==
    /\ shadow = NoShadow
    /\ call = NoCall
    /\ np_random = FreshRandom
    /\ first_call = NoMats
    /\ J_call = NoMats
    /\ ham = NoHam
    /\ \E a \in LatticeShapes :
          term_in \in [args : {<<1, a[1], a[2]>>},
                       coup_term_mat : [Range(1) -> [Range(NumTerms(a[1], a[2])) -> 0..MaxVal]]]
    /\ ds = NoDataset
    /\ ntk = NoKernel
    /\ arrays = NoArrays
    /\ built = NoArrays
    /\ fit = NoFit

\* lines 75-83 run on the drawn coup_term_mat
RunCouplingLoop ==
    /\ J_call = NoMats
    /\ LET a == term_in.args
           r == CouplingLoop(a[1], a[2], a[3], term_in.coup_term_mat)
       IN J_call' = [args |-> a, status |-> r.status, mats |-> r.mats, rng_pos |-> 0]
    /\ UNCHANGED <<shadow, call, np_random, first_call, ham, term_in, ds, ntk, arrays, built, fit>>

NextDraws == RunCouplingLoop \/ CallHamiltonian

SpecDraws == InitDraws /\ [][NextDraws]_vars

-----------------------------------------------------------------------------
(* Claims about build_coupling_mats and Hamiltonian *)

MatsBuilt == J_call # NoMats

\* spins i and j are nearest neighbours on the num_rows x num_cols grid, spin
\* idx sitting in row idx \div num_cols and column idx % num_cols
Adjacent(i, j, num_cols) ==
    LET ri == i \div num_cols
        ci == i % num_cols
        rj == j \div num_cols
        cj == j % num_cols
    IN \/ ri = rj /\ (ci - cj = 1 \/ cj - ci = 1)
       \/ ci = cj /\ (ri - rj = 1 \/ rj - ri = 1)

UpperPairs(num_spins) == { p \in Range(num_spins) \X Range(num_spins) : p[1] < p[2] }

\* C4: every matrix build_coupling_mats returns is symmetric with an all-zero
\* diagonal, for every lattice and every sequence of drawn coupling values
\* (zero and repeated draws included).
C4_SymmetricZeroDiagonal ==
    MatsBuilt =>
        /\ J_call.status = "ok"
        /\ \A itr \in DOMAIN J_call.mats :
              LET M == J_call.mats[itr]
              IN \A i \in DOMAIN M :
                    /\ M[i][i] = 0
                    /\ \A j \in DOMAIN M : M[i][j] = M[j][i]

\* C4 witness: a 2 x 2 lattice built from draws that hold a zero, a repeated
\* value and a nonzero value
C4_Witness ==
    /\ MatsBuilt
    /\ J_call.args = <<1, 2, 2>>
    /\ \E e1, e2, e3 \in Range(4) :
          /\ e1 # e2
          /\ term_in.coup_term_mat[0][e1] = 0
          /\ term_in.coup_term_mat[0][e2] = term_in.coup_term_mat[0][e3]
          /\ e2 # e3
          /\ term_in.coup_term_mat[0][e2] # 0
    /\ \E i, j \in Range(4) : J_call.mats[0][i][j] # 0

\* C5: M[i][j] is nonzero exactly when spins i and j are nearest neighbours of
\* the grid, so the upper triangle holds 2*R*Col - R - Col nonzero entries.
C5_NonzeroIffAdjacent ==
    MatsBuilt =>
        LET num_rows == J_call.args[2]
            num_cols == J_call.args[3]
        IN /\ J_call.status = "ok"
           /\ \A itr \in DOMAIN J_call.mats :
                 LET M == J_call.mats[itr]
                 IN /\ DOMAIN M = Range(num_rows * num_cols)
                    /\ \A i \in DOMAIN M : \A j \in DOMAIN M :
                          (M[i][j] # 0) <=> Adjacent(i, j, num_cols)
                    /\ Cardinality({ p \in UpperPairs(num_rows * num_cols) : M[p[1]][p[2]] # 0 })
                          = 2 * num_rows * num_cols - num_rows - num_cols

\* C5 witness: a 2 x 2 lattice, where spins 1 and 2 are consecutive but in
\* different rows (no edge) and spins 0 and 2 are vertical neighbours
C5_Witness ==
    /\ MatsBuilt
    /\ J_call.args[2] = 2 /\ J_call.args[3] = 2
    /\ J_call.mats[0][1][2] = 0
    /\ J_call.mats[0][0][2] # 0
    /\ J_call.mats[0][0][1] # 0

\* C6: a call of build_coupling_mats with the arguments of the first call
\* returns the array the first call returned, whatever was drawn from the
\* global generator in between.
C6_SameArgumentsSameMatrices ==
    (MatsBuilt /\ J_call.args = first_call.args) =>
        (J_call.status = first_call.status /\ J_call.mats = first_call.mats)

\* C6 witness: a later call with the first call's arguments, made after further
\* draws from the global generator
C6_Witness ==
    /\ MatsBuilt
    /\ J_call.args = first_call.args
    /\ J_call.args[1] = 2
    /\ J_call.rng_pos > first_call.rng_pos
    /\ J_call.mats = first_call.mats

HamBuilt == ham # NoHam

\* the positions of the term op_i op_j with coefficient c in the two lists
TermPositions(name, i, j, c) ==
    { n \in 1..Len(ham.ops) :
        /\ n <= Len(ham.coeffs)
        /\ ham.ops[n] = [name |-> name, wires |-> <<i, j>>]
        /\ ham.coeffs[n] = c }

\* C7: Hamiltonian(J) holds, for every pair i < j with J[i][j] nonzero, exactly
\* the three terms X_i X_j, Y_i Y_j, Z_i Z_j with coefficient J[i][j], no term
\* for a pair with zero coupling, and both lists have length 3 times the number
\* of nonzero upper-triangular entries.
C7_ThreeTermsPerNonzeroPair ==
    HamBuilt =>
        LET J == ham.J_mat
            nonzero == { p \in UpperPairs(NumSpins(J)) : J[p[1]][p[2]] # 0 }
        IN /\ Len(ham.coeffs) = Len(ham.ops)
           /\ Len(ham.ops) = 3 * Cardinality(nonzero)
           /\ \A p \in nonzero : \A name \in PauliNames :
                 Cardinality(TermPositions(name, p[1], p[2], J[p[1]][p[2]])) = 1
           /\ \A n \in 1..Len(ham.ops) :
                 /\ ham.ops[n].wires \in nonzero
                 /\ ham.ops[n].name \in PauliNames

\* C7 witness: a 2 x 2 lattice with a zero coupling on an edge and a nonzero
\* coupling on another, whose Hamiltonian has terms
C7_Witness ==
    /\ HamBuilt
    /\ NumSpins(ham.J_mat) = 4
    /\ ham.J_mat[0][1] = 0
    /\ ham.J_mat[2][3] # 0
    /\ Len(ham.ops) >= 3

-----------------------------------------------------------------------------
(* build_dataset *)

\* The eigensolver, the exact simulator and the measurement device are
\* external.  eigs returns some eigenvector, named by an oracle id.  The exact
\* correlation of (i, j) is a fixed function of the state, the estimate one of
\* the shadow; neither is assumed to give (i, j) and (j, i) the same value.
OracleIds == {1, 2}

\* psi = np.zeros(2 ** num_qubits)
ZeroState == [kind |-> "zeros", id |-> 0]

\* np.sum([circuit_exact(psi, observables=[o]) for o in corrs]) / 3
ExactExpval(psi, i, j) ==
    IF psi = ZeroState THEN NaN
    ELSE (((psi.id + 3 * i + j) % 5) - 2) * (Scale \div 2)

\* np.sum([estimate_shadow_observable(shadow, o, k=k + 1) for o in corrs]) / 3
EstimExpval(sh, i, j) ==
    (((sh.psi.id + sh.rng_pos + i + 3 * j) % 5) - 2) * (Scale \div 2)

\* corr_function_op(i, j): three tensor products op(i) @ op(j) for i != j, and
\* qml.Identity(i) three times for i = j
CorrFunctionOp(i, j) ==
    [n \in 1..3 |->
        IF i # j THEN <<[name |-> PauliOps[n], wire |-> i], [name |-> PauliOps[n], wire |-> j]>>
        ELSE <<[name |-> "Identity", wire |-> i]>>]

\* lines 536-538: qbobs, the concatenation of corr_function_op(i, j) over
\* coups = it.product(range(num_qubits), repeat=2) in row-major order
RECURSIVE Qbobs(_, _)
Qbobs(num_qubits, n) ==
    IF n = num_qubits * num_qubits THEN <<>>
    ELSE CorrFunctionOp(n \div num_qubits, n % num_qubits) \o Qbobs(num_qubits, n + 1)

\* line 540: failure_rate = 1
FailureRate == 1

\* the least integer above e^n for n = 1, ..., 10; as e^n is irrational,
\* e^n <= m holds for an integer m exactly when ExpCeil[n] <= m
ExpCeil == <<3, 8, 21, 55, 149, 404, 1097, 2981, 8104, 22027>>

\* int(2 * np.log(x)) for an integer 1 <= x < e^5: the number of n >= 1 with
\* e^(n/2) <= x, that is with e^n <= x * x
IntTwoLog(x) == Cardinality({ n \in 1..Len(ExpCeil) : ExpCeil[n] <= x * x })

\* line 541: k = int(2 * np.log(2 * len(qbobs) / failure_rate))
GroupCountK(num_qubits) == IntTwoLog((2 * Len(Qbobs(num_qubits, 0))) \div FailureRate)

\* the norm np.linalg.norm(psi) of the state of lines 529-532: 0 for np.zeros,
\* 1.0 for an eigenvector returned by the eigensolver
Norm(psi) == IF psi.kind = "zeros" THEN 0 ELSE Scale

\* the test `if len(ham.ops)` replaced by True (faulty variant of HasTerms)
HasTermsAlways(h) == TRUE

\* line 530: if len(ham.ops)
HasTerms(h) == Len(h.ops) # 0

\* line 547/549-561 writing only entry (i, j) (faulty variant of CorrWrite)
CorrWriteNoMirror(M, i, j, v) == [M EXCEPT ![i][j] = v]

\* lines 549-561: M[i][j] = v; M[j][i] = M[i][j]
CorrWrite(M, i, j, v) == [[M EXCEPT ![i][j] = v] EXCEPT ![j][i] = v]

\* coupling_mat.reshape(1, -1)[0]: the rows one after the other
Flatten(M) ==
    LET n == Cardinality(DOMAIN M)
    IN [c \in 1..(n * n) |-> M[(c - 1) \div n][(c - 1) % n]]

InSeq(x, sq) == \E n \in 1..Len(sq) : sq[n] = x

\* lines 563-566 without the test `coup not in coupling_vec` (faulty variant of CouplingVec)
RECURSIVE CouplingVecNoDedup(_, _, _)
CouplingVecNoDedup(flat, n, acc) ==
    IF n > Len(flat) THEN acc
    ELSE IF flat[n] # 0
         THEN CouplingVecNoDedup(flat, n + 1, Append(acc, flat[n]))
         ELSE CouplingVecNoDedup(flat, n + 1, acc)

\* lines 563-566: the nonzero entries of the flattened matrix, each value once
RECURSIVE CouplingVec(_, _, _)
CouplingVec(flat, n, acc) ==
    IF n > Len(flat) THEN acc
    ELSE IF flat[n] # 0 /\ ~InSeq(flat[n], acc)
         THEN CouplingVec(flat, n + 1, Append(acc, flat[n]))
         ELSE CouplingVec(flat, n + 1, acc)

RECURSIVE SumSquares(_)
SumSquares(sq) == IF sq = <<>> THEN 0 ELSE Head(sq) * Head(sq) + SumSquares(Tail(sq))

\* line 567: coupling_vec / np.linalg.norm(coupling_vec), kept as the raw
\* vector together with the square of the norm it is divided by
Normalized(vec) == [vec |-> vec, norm_sq |-> SumSquares(vec)]

DsNumQubits == ds.args[2] * ds.args[3]

InitDataset ==
    /\ shadow = NoShadow
    /\ call = NoCall
    /\ np_random \in [seed : GlobalSeeds, pos : {0}]
    /\ first_call = NoMats
    /\ J_call = NoMats
    /\ ham = NoHam
    /\ term_in = NoTerms
    /\ ds = NoDataset
    /\ ntk = NoKernel
    /\ arrays = NoArrays
    /\ built = NoArrays
    /\ fit = NoFit

\* lines 521-523: build_dataset(num_points, Nr, Nc, T) starts
DS_Call ==
    /\ ds.pc = "idle"
    /\ np_random.pos <= MaxRngDraws
    /\ \E num_points \in 1..MaxPoints, a \in LatticeShapes, T \in 1..MaxShots :
          ds' = [NoDataset EXCEPT
                    !.pc = "ham",
                    !.args = <<num_points, a[1], a[2], T>>,
                    !.coupling_mats = BuildCouplingMats(num_points, a[1], a[2]).mats]
    /\ UNCHANGED <<shadow, call, np_random, first_call, J_call, ham, term_in, ntk, arrays, built, fit>>

\* lines 527-529: ham = Hamiltonian(coupling_mat); psi = np.zeros(...)
DS_Hamiltonian ==
    /\ ds.pc = "ham"
    /\ ds' = [ds EXCEPT !.pc = "eig",
                        !.ham = Hamiltonian(ds.coupling_mats[ds.idx]),
                        !.psi = ZeroState,
                        !.eigs_invoked = FALSE]
    /\ UNCHANGED <<shadow, call, np_random, first_call, J_call, ham, term_in, ntk, arrays, built, fit>>

\* lines 530-532: the eigensolver runs only if the Hamiltonian has terms
DS_Eigs ==
    /\ ds.pc = "eig"
    /\ IF HasTerms(ds.ham)
       THEN \E o \in OracleIds :
               ds' = [ds EXCEPT !.pc = "shadow",
                                !.psi = [kind |-> "eigvec", id |-> o],
                                !.eigs_invoked = TRUE,
                                !.eigs_calls = @ + 1]
       ELSE ds' = [ds EXCEPT !.pc = "shadow"]
    /\ UNCHANGED <<shadow, call, np_random, first_call, J_call, ham, term_in, ntk, arrays, built, fit>>

\* lines 534-543: gen_class_shadow draws T * num_qubits bases from the global
\* generator and measures the state; k is computed and the two matrices start
\* as zeros.  The circuit divides psi by its norm (line 190), so on a state of
\* norm 0 the device is handed NaN amplitudes: it may reject them (the call
\* raises) or go on.
DS_GenClassShadow ==
    /\ ds.pc = "shadow"
    /\ \/ /\ Norm(ds.psi) = 0
          /\ ds' = [ds EXCEPT !.pc = "error"]
          /\ UNCHANGED np_random
       \/ /\ np_random' = [np_random EXCEPT !.pos = @ + ds.args[4] * DsNumQubits]
          /\ ds' = [ds EXCEPT !.pc = "corr",
                              !.shadow = [psi |-> ds.psi, rng_pos |-> np_random.pos],
                              !.k = GroupCountK(DsNumQubits),
                              !.cpos = 0,
                              !.expval_exact = ZeroMat(DsNumQubits),
                              !.expval_estim = ZeroMat(DsNumQubits)]
    /\ UNCHANGED <<shadow, call, first_call, J_call, ham, term_in, ntk, arrays, built, fit>>

\* lines 544-561: one iteration (i, j) of the loop over coups; for i != j
\* estimate_shadow_observable(shadow, o, k=k + 1) raises ValueError when
\* T // (k + 1) is 0 (line 393)
DS_Corr ==
    /\ ds.pc = "corr"
    /\ LET i == ds.cpos \div DsNumQubits
           j == ds.cpos % DsNumQubits
           last == ds.cpos + 1 = DsNumQubits * DsNumQubits
       IN IF i # j /\ ds.args[4] \div (ds.k + 1) = 0
          THEN ds' = [ds EXCEPT !.pc = "error"]
          ELSE
          ds' = [ds EXCEPT
                    !.expval_exact =
                        IF i = j THEN [@ EXCEPT ![i][j] = Scale]
                        ELSE CorrWrite(@, i, j, ExactExpval(ds.psi, i, j)),
                    !.expval_estim =
                        IF i = j THEN [@ EXCEPT ![i][j] = Scale]
                        ELSE CorrWrite(@, i, j, EstimExpval(ds.shadow, i, j)),
                    !.cpos = @ + 1,
                    !.pc = IF last THEN "vec" ELSE "corr"]
    /\ UNCHANGED <<shadow, call, np_random, first_call, J_call, ham, term_in, ntk, arrays, built, fit>>

\* lines 563-571: the feature vector and the two label vectors are appended
DS_Append ==
    /\ ds.pc = "vec"
    /\ ds' = [ds EXCEPT
                 !.X = Append(@, Normalized(CouplingVec(Flatten(ds.coupling_mats[ds.idx]), 1, <<>>))),
                 !.y_exact = Append(@, Flatten(ds.expval_exact)),
                 !.y_estim = Append(@, Flatten(ds.expval_estim)),
                 !.idx = @ + 1,
                 !.pc = IF ds.idx + 1 = ds.args[1] THEN "done" ELSE "ham"]
    /\ UNCHANGED <<shadow, call, np_random, first_call, J_call, ham, term_in, ntk, arrays, built, fit>>

\* line 573: build_dataset returns (or its exception reaches the caller)
DS_Return ==
    /\ ds.pc \in {"done", "error"}
    /\ ds' = [ds EXCEPT !.pc = "idle"]
    /\ UNCHANGED <<shadow, call, np_random, first_call, J_call, ham, term_in, ntk, arrays, built, fit>>

NextDataset ==
    DS_Call \/ DS_Hamiltonian \/ DS_Eigs \/ DS_GenClassShadow \/ DS_Corr \/ DS_Append
    \/ DS_Return

SpecDataset == InitDataset /\ [][NextDataset]_vars

-----------------------------------------------------------------------------
(* Claims about build_dataset *)

\* a flattened n x n matrix is symmetric with every diagonal entry 1.0
FlatSymmetricUnitDiagonal(flat, n) ==
    /\ Len(flat) = n * n
    /\ \A i \in Range(n) :
          /\ flat[i * n + i + 1] = Scale
          /\ \A j \in Range(n) : flat[i * n + j + 1] = flat[j * n + i + 1]

\* C8: for every sample of build_dataset, once the loop over all ordered pairs
\* has finished, the exact and the shadow-estimated correlation matrices are
\* symmetric with every diagonal entry exactly 1.0.
C8_CorrelationSymmetricUnitDiagonal ==
    /\ ds.pc = "vec" =>
          \A i \in Range(DsNumQubits) :
             /\ ds.expval_exact[i][i] = Scale
             /\ ds.expval_estim[i][i] = Scale
             /\ \A j \in Range(DsNumQubits) :
                   /\ ds.expval_exact[i][j] = ds.expval_exact[j][i]
                   /\ ds.expval_estim[i][j] = ds.expval_estim[j][i]
    /\ \A s \in 1..Len(ds.y_exact) :
          /\ FlatSymmetricUnitDiagonal(ds.y_exact[s], DsNumQubits)
          /\ FlatSymmetricUnitDiagonal(ds.y_estim[s], DsNumQubits)

\* C8 witness: a finished 2 x 2 dataset of two samples whose simulator and
\* estimator gave (0, 1) and (1, 0) different values, with a nonzero
\* off-diagonal entry
C8_Witness ==
    /\ ds.pc = "done"
    /\ Len(ds.y_exact) = 2 /\ Len(ds.y_estim) = 2
    /\ DsNumQubits = 4
    /\ ExactExpval(ds.psi, 0, 1) # ExactExpval(ds.psi, 1, 0)
    /\ EstimExpval(ds.shadow, 0, 1) # EstimExpval(ds.shadow, 1, 0)
    /\ ds.y_exact[2][2] # 0
    /\ ds.y_estim[2][2] # ds.y_exact[2][2]

\* the couplings of the lattice edges of M in increasing (i, j) order
RECURSIVE EdgeCouplings(_, _, _)
EdgeCouplings(M, num_cols, n) ==
    LET num_spins == Cardinality(DOMAIN M)
        i == n \div num_spins
        j == n % num_spins
    IN IF n = num_spins * num_spins THEN <<>>
       ELSE IF i < j /\ Adjacent(i, j, num_cols)
            THEN <<M[i][j]>> \o EdgeCouplings(M, num_cols, n + 1)
            ELSE EdgeCouplings(M, num_cols, n + 1)

\* C9: the feature vector of every sample has one component per lattice edge,
\* 2*Nr*Nc - Nr - Nc in all, and its k-th component is (before normalisation)
\* the coupling of the k-th edge in increasing (i, j) order, which is the k-th
\* value build_coupling_mats drew for that matrix.
C9_FeatureVectorFollowsEdgeOrder ==
    \A s \in 1..Len(ds.X) :
        LET Nr == ds.args[2]
            Nc == ds.args[3]
            edges == 2 * Nr * Nc - Nr - Nc
        IN /\ Len(ds.X[s].vec) = edges
           /\ ds.X[s].vec = EdgeCouplings(ds.coupling_mats[s - 1], Nc, 0)
           /\ \A k \in 1..edges : ds.X[s].vec[k] = RngState(Seed, (s - 1) * edges + k)

\* C9 witness: a finished 2 x 2 dataset of two samples with four-component
\* feature vectors that differ
C9_Witness ==
    /\ ds.pc = "done"
    /\ ds.args[2] = 2 /\ ds.args[3] = 2
    /\ Len(ds.X) = 2
    /\ Len(ds.X[1].vec) = 4 /\ Len(ds.X[2].vec) = 4
    /\ ds.X[1].vec # ds.X[2].vec

\* the number of samples among the first n whose coupling matrix has a nonzero
\* entry above the diagonal
SamplesWithCoupling(n) ==
    Cardinality({ s \in Range(n) :
        \E p \in UpperPairs(DsNumQubits) : ds.coupling_mats[s][p[1]][p[2]] # 0 })

\* C10: when the Hamiltonian of a sample has no terms the eigensolver is not
\* invoked and the sample's state is the fallback np.zeros(2 ** num_qubits);
\* the eigensolver is invoked exactly when the Hamiltonian has a term.
C10_EigensolverOnlyWithTerms ==
    ds.pc \in {"shadow", "corr", "vec", "error"} =>
        /\ (Len(ds.ham.ops) = 0) => (~ds.eigs_invoked /\ ds.psi = ZeroState)
        /\ (Len(ds.ham.ops) # 0) => (ds.eigs_invoked /\ ds.psi.kind = "eigvec")
        /\ ds.eigs_calls = SamplesWithCoupling(ds.idx + 1)

\* C10 witness: a sample on the 1 x 1 lattice, whose Hamiltonian is empty, just
\* after the eigensolver step
C10_Witness ==
    /\ ds.pc = "shadow"
    /\ Len(ds.ham.ops) = 0
    /\ ~ds.eigs_invoked
    /\ ds.psi = ZeroState
    /\ ds.eigs_calls = 0

\* C11: every state build_dataset hands to the shadow engine and to the exact
\* estimator has norm 1, the state used for a Hamiltonian without terms
\* included.
C11_HandedStatesAreNormalized ==
    ds.pc \in {"corr", "vec", "error"} =>
        /\ Norm(ds.psi) = Scale
        /\ ds.pc # "error" => Norm(ds.shadow.psi) = Scale

\* the observables build_dataset estimates from one shadow, each as the set of
\* its factors: op_i op_j for every pair i # j and every Pauli op
EstimatedObservables(num_qubits) ==
    { { Qbobs(num_qubits, 0)[n][f] : f \in 1..Len(Qbobs(num_qubits, 0)[n]) } :
        n \in { m \in 1..Len(Qbobs(num_qubits, 0)) : Len(Qbobs(num_qubits, 0)[m]) = 2 } }

\* ceil(2 * ln(x)) for an integer x >= 1; 2 * ln(x) is an integer only for x = 1
CeilTwoLn(x) == IF x = 1 THEN 0 ELSE IntTwoLog(x) + 1

\* C16: the group count passed to estimate_shadow_observable by the correlation
\* loop is ceil(2 * ln(2 * M / delta)), M being the number of distinct
\* observables estimated from the shadow and delta the failure probability.
C16_GroupCountFromDistinctObservables ==
    (ds.pc \in {"corr", "vec"} /\ DsNumQubits >= 2) =>
        ds.k + 1 = CeilTwoLn((2 * Cardinality(EstimatedObservables(DsNumQubits))) \div FailureRate)

-----------------------------------------------------------------------------
(* The normalisation loop over kernel_NN (lines 646-650) *)

\* A kernel entry x is represented by the integer x * KScale.  The diagonal
\* entries the kernel function returns are squares r * r with r in 1..MaxRoot,
\* so every square root the loop takes and every quotient it forms is exact.
KScale == LcmUpTo(MaxRoot) * LcmUpTo(MaxRoot)

\* x ** 0.5 for the representation x of a square
ISqrt(x) == CHOOSE r \in 0..(MaxRoot * MaxRoot * KScale) : r * r = x

\* kernel_fn(X_data, X_data, "ntk"): a symmetric n x n matrix with a positive
\* diagonal
KernelFnOutputs(n) ==
    { [i \in Range(n) |-> [j \in Range(n) |->
          IF i = j THEN root[i] * root[i] * KScale
          ELSE IF i < j THEN off[<<i, j>>] * KScale ELSE off[<<j, i>>] * KScale]] :
        root \in [Range(n) -> 1..MaxRoot],
        off \in [{ p \in Range(n) \X Range(n) : p[1] < p[2] } -> 1..MaxOff] }

\* line 650: kernel_NN[i][j] /= (kernel_NN[i][i] * kernel_NN[j][j]) ** 0.5,
\* reading the diagonal entries the array holds at that moment
NormalizeEntry(K, i, j) ==
    [K EXCEPT ![i][j] = (@ * KScale) \div ISqrt(K[i][i] * K[j][j])]

InitKernel ==
    /\ shadow = NoShadow
    /\ call = NoCall
    /\ np_random = FreshRandom
    /\ first_call = NoMats
    /\ J_call = NoMats
    /\ ham = NoHam
    /\ term_in = NoTerms
    /\ ds = NoDataset
    /\ \E n \in 1..MaxKernel : \E M \in KernelFnOutputs(n) :
          ntk = [pc |-> "loop", kernel_fn |-> M, kernel_NN |-> M, pos |-> 0]
    /\ arrays = NoArrays
    /\ built = NoArrays
    /\ fit = NoFit

\* one iteration (i, j) of the two loops of lines 648-650, in row-major order
NTK_Normalize ==
    /\ ntk.pc = "loop"
    /\ LET n == Cardinality(DOMAIN ntk.kernel_NN)
           i == ntk.pos \div n
           j == ntk.pos % n
       IN ntk' = [ntk EXCEPT !.kernel_NN = NormalizeEntry(@, i, j),
                             !.pos = @ + 1,
                             !.pc = IF ntk.pos + 1 = n * n THEN "done" ELSE "loop"]
    /\ UNCHANGED <<shadow, call, np_random, first_call, J_call, ham, term_in, ds,
                   arrays, built, fit>>

NextKernel == NTK_Normalize

SpecKernel == InitKernel /\ [][NextKernel]_vars

\* C14: after the loop every entry is the entry the kernel function returned
\* divided by the square root of the product of the diagonal entries
\* k(x_i, x_i) and k(x_j, x_j) the kernel function returned.
C14_CosineNormalizedByOriginalDiagonal ==
    ntk.pc = "done" =>
        \A i \in DOMAIN ntk.kernel_NN : \A j \in DOMAIN ntk.kernel_NN :
            ntk.kernel_NN[i][j] * ISqrt(ntk.kernel_fn[i][i] * ntk.kernel_fn[j][j])
                = ntk.kernel_fn[i][j] * KScale

-----------------------------------------------------------------------------
(* fit_predict_data and the loop calling it (lines 664-746) *)

\* A row of X_data, kernel_dirichlet or kernel_NN is the vector `of`, divided
\* by its own norm when normed is TRUE.  Dividing a row by its norm is the
\* identity on a row that is already divided by its norm.  The rows of
\* kernel_dirichlet hold cos(0) = 1 for every feature and the rows of
\* kernel_NN a diagonal entry 1.0 next to positive entries, so neither has
\* norm 1 as built.
\* line 667: kernel[idx] /= np.linalg.norm(kernel[idx])
RowNormalize(row) == [row EXCEPT !.normed = TRUE]

\* the arrays of lines 576-650 for num_points samples on an Nr x Nc lattice:
\* X_data from the coupling matrices as build_dataset forms it (lines 563-567),
\* the two label arrays as lines 542-561 leave them for states and shadows that
\* differ from sample to sample, kernel_dirichlet computed from the rows of
\* X_data, kernel_NN from the kernel function
ArraysOf(num_points, Nr, Nc) ==
    LET nq == Nr * Nc
        mats == BuildCouplingMats(num_points, Nr, Nc).mats
        X == [s \in Range(num_points) |->
                 [of |-> CouplingVec(Flatten(mats[s]), 1, <<>>), normed |-> TRUE]]
        psi(s) == [kind |-> "eigvec", id |-> s + 1]
        hi(i, j) == IF i > j THEN i ELSE j
        lo(i, j) == IF i > j THEN j ELSE i
    IN [X_data |-> X,
        y_exact |-> [s \in Range(num_points) |->
            Flatten([i \in Range(nq) |-> [j \in Range(nq) |->
                IF i = j THEN Scale ELSE ExactExpval(psi(s), hi(i, j), lo(i, j))]])],
        y_estim |-> [s \in Range(num_points) |->
            Flatten([i \in Range(nq) |-> [j \in Range(nq) |->
                IF i = j THEN Scale
                ELSE EstimExpval([psi |-> psi(s), rng_pos |-> 2 * s], hi(i, j), lo(i, j))]])],
        kernel_dirichlet |-> [s \in Range(num_points) |->
            [of |-> [kind |-> "dirichlet", x |-> X[s]], normed |-> FALSE]],
        kernel_NN |-> [s \in Range(num_points) |->
            [of |-> [kind |-> "ntk", idx |-> s], normed |-> FALSE]]]

\* random_state=24 of lines 672 and 677
SplitSeed == 24

\* RandomState(random_state).permutation(n): a shuffle that swaps position i
\* with a drawn position j <= i, for i = n - 1 down to 1
RECURSIVE Shuffle(_, _, _, _)
Shuffle(perm, i, random_state, draw) ==
    IF i < 1 THEN perm
    ELSE LET j == RngState(random_state, draw) % (i + 1)
         IN Shuffle([perm EXCEPT ![i] = perm[j], ![j] = perm[i]], i - 1, random_state, draw + 1)

Permutation(n, random_state) == Shuffle([x \in Range(n) |-> x], n - 1, random_state, 1)

\* the split of one array by a permutation of its indices: test_size=0.3 gives
\* n_test = ceil(0.3 * n) rows, the first n_test of the permutation, and leaves
\* n_train = n - n_test; train_test_split raises ValueError if n_train is 0
SplitBy(arr, perm) ==
    LET n == Cardinality(DOMAIN arr)
        n_test == (3 * n + 9) \div 10
        n_train == n - n_test
    IN [status |-> IF n_train = 0 THEN "ValueError" ELSE "ok",
        train |-> [k \in 1..n_train |-> arr[perm[n_test + k - 1]]],
        test |-> [k \in 1..n_test |-> arr[perm[k - 1]]]]

\* train_test_split(arr, test_size=0.3, random_state=random_state)
TrainTestSplit(arr, random_state) ==
    SplitBy(arr, Permutation(Cardinality(DOMAIN arr), random_state))

\* line 677 splitting y_clean in its stored order, without the seeded
\* permutation (faulty variant of SplitClean)
SplitCleanUnshuffled(y_clean) ==
    SplitBy(y_clean, [x \in Range(Cardinality(DOMAIN y_clean)) |-> x])

\* line 677: train_test_split(kernel, y_clean, test_size=0.3, random_state=24)
SplitClean(y_clean) == TrainTestSplit(y_clean, SplitSeed)

\* lines 680-685: the two regression families
Models == <<"SVR", "KernelRidge">>

\* lines 686-697: the regularization parameters, in units of 0.0001
Hyperparams == <<25, 125, 250, 500, 1250, 2500, 5000, 10000, 50000, 100000>>

\* cv=5 of line 706
CvFolds == 5

\* model(hyperparam): svm.SVR(kernel=opt, C=Cx, epsilon=0.1) or
\* KernelRidge(kernel=opt, alpha=1 / (2 * Cx))
Model(m, hyperparam, opt) == [family |-> Models[m], kernel |-> opt, Cx |-> hyperparam]

\* model(hyperparam).fit(X_train, y_train): the regression library's answer is
\* named by what was fitted on what
Fitted(model, X_train, y_train) == [model |-> model, X_fit |-> X_train, y_fit |-> y_train]

\* best_model.predict(X_test)
Predict(fitted, X_test) == [by |-> fitted, on |-> X_test]

\* lines 714-716: np.linalg.norm(pred.ravel() - y_ref.ravel()) / len(y_test) ** 0.5
TestScore(pred, y_ref, len) == [pred |-> pred, against |-> y_ref, len |-> len]

\* -np.mean(cross_val_score(...)) of lines 701-709 in units of 0.000001: the
\* library's answer for candidate (m, h), read from score table `table`
CvScore(table, m, h) ==
    (((table * 5 + (m - 1) * 10 + h) * 7 + table * h) % 13) * 12345 + 5

\* line 710 with the comparison reversed (faulty variant of Improves)
ImprovesReversed(best_cv_score, cv_score) == best_cv_score < cv_score

\* line 710: if best_cv_score > cv_score
Improves(best_cv_score, cv_score) == best_cv_score > cv_score

\* np.round(x, 5) of a score in units of 0.000001: to the nearest multiple of
\* 0.00001, a tie to the even one; np.round(np.inf, 5) is np.inf
Round5(x) ==
    LET q == x \div 10
        r == x % 10
    IN IF x = Inf THEN Inf
       ELSE IF r < 5 \/ (r = 5 /\ q % 2 = 0) THEN 10 * q ELSE 10 * (q + 1)

\* np.round(x, 5) of a test score
Rounded(x) == IF x = InfScore THEN InfScore ELSE [round5 |-> x]

\* lines 736-746: the arrays handed to fit_predict_data, in the order of the calls
KernelOrder == <<"X_data", "kernel_dirichlet", "kernel_NN">>

\* num_qubits ** 2, the number of entries of a correlation matrix
NumEntries == Len(arrays.y_exact[0])

NumSamplesFit == Cardinality(DOMAIN arrays.X_data)

\* the lattices with at least one edge
LatticesWithEdges == { a \in LatticeShapes : NumTerms(a[1], a[2]) >= 1 }

InitFit ==
    /\ shadow = NoShadow
    /\ call = NoCall
    /\ np_random = FreshRandom
    /\ first_call = NoMats
    /\ J_call = NoMats
    /\ ham = NoHam
    /\ term_in = NoTerms
    /\ ds = NoDataset
    /\ ntk = NoKernel
    /\ \E num_points \in 1..MaxSamples, a \in LatticesWithEdges :
          /\ arrays = ArraysOf(num_points, a[1], a[2])
          /\ built = ArraysOf(num_points, a[1], a[2])
    /\ fit = NoFit

\* lines 737-744 and 664-667: the next call of fit_predict_data of the loop
\* starts and divides every row of its kernel argument by the row's norm, in
\* the array the caller passed
FP_Call ==
    /\ fit.pc = "idle"
    /\ fit.call_no < 3 * NumEntries
    /\ LET name == KernelOrder[(fit.call_no % 3) + 1]
       IN /\ arrays' = [arrays EXCEPT ![name] = [idx \in DOMAIN @ |-> RowNormalize(@[idx])]]
          /\ \E table \in 1..MaxCvTables :
                fit' = [fit EXCEPT !.pc = "split",
                                   !.cij = fit.call_no \div 3,
                                   !.kernel = name,
                                   !.opt = IF name = "X_data" THEN "rbf" ELSE "linear",
                                   !.table = table]
    /\ UNCHANGED <<shadow, call, np_random, first_call, J_call, ham, term_in, ds, ntk, built>>

\* lines 670-677 and 698: the two train_test_split calls
FP_Split ==
    /\ fit.pc = "split"
    /\ LET y == [i \in Range(NumSamplesFit) |-> arrays.y_estim[i][fit.cij + 1]]
           y_clean == [i \in Range(NumSamplesFit) |-> arrays.y_exact[i][fit.cij + 1]]
           Xs == TrainTestSplit(arrays[fit.kernel], SplitSeed)
           ys == TrainTestSplit(y, SplitSeed)
           cs == SplitClean(y_clean)
       IN IF Xs.status # "ok"
          THEN fit' = [fit EXCEPT !.pc = "error"]
          ELSE fit' = [fit EXCEPT !.pc = "cv",
                                  !.X_train = Xs.train, !.X_test = Xs.test,
                                  !.y_train = ys.train, !.y_test = ys.test,
                                  !.y_test_clean = cs.test,
                                  !.m = 1, !.h = 1, !.evals = 0,
                                  !.best_model = None, !.best_pred = None,
                                  !.best_cv_score = Inf, !.best_test_score = InfScore]
    /\ UNCHANGED <<shadow, call, np_random, first_call, J_call, ham, term_in, ds, ntk,
                   arrays, built>>

\* lines 699-716: one candidate (model, hyperparam) of the two nested loops;
\* cross_val_score raises ValueError when the training split has fewer rows
\* than folds
FP_Candidate ==
    /\ fit.pc = "cv"
    /\ IF Len(fit.X_train) < CvFolds
       THEN fit' = [fit EXCEPT !.pc = "error"]
       ELSE LET cv_score == CvScore(fit.table, fit.m, fit.h)
                fitted == Fitted(Model(fit.m, Hyperparams[fit.h], fit.opt),
                                 fit.X_train, fit.y_train)
                better == Improves(fit.best_cv_score, cv_score)
                last == fit.m = Len(Models) /\ fit.h = Len(Hyperparams)
            IN fit' = [fit EXCEPT
                  !.evals = @ + 1,
                  !.best_model = IF better THEN fitted ELSE @,
                  !.best_pred = IF better THEN Predict(fitted, fit.X_test) ELSE @,
                  !.best_cv_score = IF better THEN cv_score ELSE @,
                  !.best_test_score =
                      IF better
                      THEN TestScore(Predict(fitted, fit.X_test), fit.y_test_clean,
                                     Len(fit.y_test))
                      ELSE @,
                  !.h = IF fit.h = Len(Hyperparams) THEN 1 ELSE @ + 1,
                  !.m = IF fit.h = Len(Hyperparams) THEN @ + 1 ELSE @,
                  !.pc = IF last THEN "done" ELSE "cv"]
    /\ UNCHANGED <<shadow, call, np_random, first_call, J_call, ham, term_in, ds, ntk,
                   arrays, built>>

\* lines 718-724: fit_predict_data returns to the loop
FP_Return ==
    /\ fit.pc = "done"
    /\ fit' = [fit EXCEPT !.pc = "idle",
                          !.call_no = @ + 1,
                          !.ret = [model |-> fit.best_model, pred |-> fit.best_pred,
                                   y_test_clean |-> fit.y_test_clean,
                                   cv_score |-> Round5(fit.best_cv_score),
                                   test_score |-> Rounded(fit.best_test_score)]]
    /\ UNCHANGED <<shadow, call, np_random, first_call, J_call, ham, term_in, ds, ntk,
                   arrays, built>>

\* the exception of train_test_split or cross_val_score ends the script
FP_Raise ==
    /\ fit.pc = "error"
    /\ fit' = [fit EXCEPT !.pc = "stopped"]
    /\ UNCHANGED <<shadow, call, np_random, first_call, J_call, ham, term_in, ds, ntk,
                   arrays, built>>

NextFit == FP_Call \/ FP_Split \/ FP_Candidate \/ FP_Return \/ FP_Raise

SpecFit == InitFit /\ [][NextFit]_vars

-----------------------------------------------------------------------------
(* Claims about fit_predict_data *)

\* a call of fit_predict_data has returned and the next has not started
Returned == fit.pc = "idle" /\ fit.call_no > 0

\* the (family, regularization) candidates
Candidates == (1..Len(Models)) \X (1..Len(Hyperparams))

\* what the regression library fits for candidate c in the current call
FittedFor(c) == Fitted(Model(c[1], Hyperparams[c[2]], fit.opt), fit.X_train, fit.y_train)

\* C12: fit_predict_data evaluates all 20 candidates (2 families x 10
\* regularization values), and the returned model, test predictions, CV score
\* and test score all belong to one candidate whose mean cross-validation RMSE
\* is the lowest of the 20.
C12_ReturnsOneBestCandidate ==
    Returned =>
        /\ Cardinality(Candidates) = 20
        /\ fit.evals = 20
        /\ \E c \in Candidates :
              /\ \A d \in Candidates :
                    CvScore(fit.table, c[1], c[2]) <= CvScore(fit.table, d[1], d[2])
              /\ fit.ret.model = FittedFor(c)
              /\ fit.ret.pred = Predict(FittedFor(c), fit.X_test)
              /\ fit.ret.cv_score = Round5(CvScore(fit.table, c[1], c[2]))
              /\ fit.ret.test_score.round5.pred = Predict(FittedFor(c), fit.X_test)

\* C12 witness: a returned call whose best candidate is of the second family
\* and not the last one evaluated, whose score is changed by the rounding, and
\* which beat a candidate of the first family
C12_Witness ==
    /\ Returned
    /\ fit.ret.model # None
    /\ fit.ret.model.model.family = "KernelRidge"
    /\ fit.ret.model.model.Cx # Hyperparams[Len(Hyperparams)]
    /\ fit.ret.cv_score # fit.best_cv_score
    /\ \E d \in Candidates :
          /\ CvScore(fit.table, d[1], d[2]) > fit.best_cv_score
          /\ d[1] = 1

\* the split has been made in the current call
SplitMade == fit.pc \in {"cv", "done"} \/ Returned

\* C13: the k-th exact test label, the k-th estimated test label and the k-th
\* test row come from one dataset sample, and so do the k-th training row and
\* label; a candidate is fitted on the estimated training labels only, and the
\* test score is computed against the exact test labels.
C13_AlignedSplitsExactTestLabels ==
    SplitMade =>
        LET kernel == arrays[fit.kernel]
            c == fit.cij + 1
        IN /\ Len(fit.X_test) = Len(fit.y_test_clean)
           /\ Len(fit.X_test) = Len(fit.y_test)
           /\ Len(fit.X_train) = Len(fit.y_train)
           /\ \A k \in 1..Len(fit.X_test) :
                 \E s \in DOMAIN kernel :
                    /\ fit.X_test[k] = kernel[s]
                    /\ fit.y_test[k] = arrays.y_estim[s][c]
                    /\ fit.y_test_clean[k] = arrays.y_exact[s][c]
           /\ \A k \in 1..Len(fit.X_train) :
                 \E s \in DOMAIN kernel :
                    /\ fit.X_train[k] = kernel[s]
                    /\ fit.y_train[k] = arrays.y_estim[s][c]
           /\ fit.best_model # None =>
                 /\ fit.best_model.y_fit = fit.y_train
                 /\ fit.best_model.X_fit = fit.X_train
                 /\ fit.best_test_score.against = fit.y_test_clean
                 /\ fit.best_test_score.pred = Predict(fit.best_model, fit.X_test)

\* C13 witness: a returned call for an off-diagonal entry whose exact test
\* labels differ from the estimated ones, in a dataset whose exact labels of
\* that entry differ between a test sample and a training sample
C13_Witness ==
    /\ Returned
    /\ fit.ret.model # None
    /\ fit.y_test_clean # fit.y_test
    /\ \E k \in 1..Len(fit.y_test_clean) :
          \E s \in DOMAIN arrays.y_exact :
             /\ arrays.y_exact[s][fit.cij + 1] # fit.y_test_clean[k]
             /\ arrays.y_exact[s][fit.cij + 1] # Scale
    /\ \A s, t \in DOMAIN arrays.X_data :
          s # t => arrays[fit.kernel][s] # arrays[fit.kernel][t]

\* C15: once build_dataset has returned, no later step changes X_data, the
\* label arrays or another component's array in place: every array keeps the
\* value its producer returned.
C15_ArraysAreReadOnly == arrays = built

====
